---- MODULE Spec2Model ----
(***************************************************************************)
(* Agent process orchestration of xangi: the per-conversation process      *)
(* registry (ProcessManager) and the three runners (CodexRunner,           *)
(* ClaudeCodeRunner, GeminiRunner) with their timeout, stdout, close and   *)
(* error handlers, on Node's single-threaded event loop.                   *)
(*                                                                         *)
(* One step of the model is one event-loop callback run to completion.     *)
(* The continuation of an async function (the code after an await) is a    *)
(* microtask: it runs before any other callback, so it is either folded    *)
(* into the step that settles the awaited promise or, for the Gemini       *)
(* resume retry, a step of its own that pre-empts every other step.        *)
(***************************************************************************)
EXTENDS Integers, FiniteSets, Sequences, TLC

\* ---------------------------------------------------------------- bounds
MaxRuns == 2
MaxProcs == 3
MaxEvents == 1
CallCap == 2
MaxLines == 2
MaxPrompts == 3

\* lastOp before any call
NoOp == [op |-> "none", key |-> "none", ret |-> FALSE, n |-> 0, seq |-> 0]

\* the absent process handle (Map.get -> undefined, currentProcess = null)
None == 0

RunIds == 1..MaxRuns
ProcIds == 1..MaxProcs
Keys == {"k1", "k2"}
NoKey == "none"
Backends == {"codex", "claude", "gemini"}
Modes == {"run", "stream"}
\* the runners that keep a currentProcess field (ClaudeCodeRunner has none)
Cancellable == {"codex", "gemini"}

VARIABLES
    backend,    \* the configured agent backend (one runner instance per program)
    procs,      \* every spawned child process and the closure state of its execute call
    runs,       \* every run / runStream call
    registry,   \* ProcessManager.processes: key -> process handle
    current,    \* the runner's currentProcess field
    lastReg,    \* the last ProcessManager.register call: key, entry found, process stored
    lastOp,     \* the last call of stop, stopAll or cancel observed by a caller
    dec,        \* one process's stdout and the closure state of the call decoding it
    chat,       \* the chat adapter: its sessions map and its processPrompt calls
    cmd,        \* one runner's configuration, one request to it and the argv built
    msg,        \* one chat message and the request its platform's handler made of it
    made        \* one call of createAgentRunner: its arguments and its outcome

vars == <<backend, procs, runs, registry, current, lastReg, lastOp, dec, chat, cmd, msg, made>>

Inc(n) == IF n < CallCap THEN n + 1 ELSE CallCap

\* a process slot before spawn
NoProc ==
    [run |-> None, key |-> NoKey, attempt |-> 0, state |-> "unborn",
     killed |-> FALSE, timer |-> FALSE, promise |-> "pending", perr |-> "none",
     code |-> "none", out |-> "none", resultErr |-> FALSE,
     events |-> 0, text |-> FALSE, failed |-> FALSE,
     timedOut |-> FALSE, stopped |-> FALSE, superseded |-> FALSE]

\* a run slot before the call
NoRun ==
    [status |-> "idle", mode |-> "none", key |-> NoKey, session |-> FALSE,
     err |-> "none", retry |-> FALSE, nComplete |-> 0, nError |-> 0,
     lateText |-> FALSE]

\* the closure state of execute / executeStream for a process that writes
\* script to its stdout: what has been decoded, called back and returned so
\* far (handed: the lines the stdout handler has taken up)
NewDec(m, script) ==
    [mode |-> m, script |-> script, pos |-> 0, closed |-> "none",
     buffer |-> <<>>, stdout |-> <<>>, fullText |-> <<>>, sessionId |-> "",
     handed |-> <<>>, calls |-> <<>>,
     promise |-> "pending", err |-> "none", result |-> [text |-> <<>>, sid |-> ""]]

\* the chat adapter before any message: const sessions = new Map(), and the
\* processPrompt calls not yet made. A session id is "absent" (Map.get gives
\* undefined), "" (the backend reported none) or an id the backend reported.
\* fresh[k] records that a new-session command was given for k and no message
\* on k has been taken up since.
Absent == "absent"
SessionIds == {"", "s1", "s2"}
PromptIds == 1..MaxPrompts
NoPrompt == [state |-> "idle", key |-> NoKey, sessionId |-> Absent, resume |-> Absent,
             resultErr |-> FALSE]
NoChat == [sessions |-> [k \in Keys |-> Absent], prompts |-> [c \in PromptIds |-> NoPrompt],
           fresh |-> [k \in Keys |-> FALSE]]

\* a runner's options (model, workdir, skipPermissions default, systemPrompt),
\* a request (prompt, options.skipPermissions, options.sessionId) and the argv
\* built for it; an optional value that is not given is "undefined"
Undefined == "undefined"
NoCmd == [model |-> Undefined, workdir |-> Undefined, skipPermissions |-> FALSE,
          systemPrompt |-> "", prompt |-> "",
          options |-> [skipPermissions |-> Undefined, sessionId |-> Undefined],
          by |-> "none", args |-> <<>>]

\* a chat message before its handler ran: the platform, the configured
\* skipPermissions default, the text, and the request not yet made
NoMsg == [platform |-> "none", default |-> FALSE, text |-> "", handled |-> FALSE,
          skipPermissions |-> FALSE, prompt |-> ""]

\* no runner object, and a call of createAgentRunner not yet made
NoRunner == [class |-> "none", methods |-> {}, model |-> Undefined, workdir |-> Undefined,
             skipPermissions |-> FALSE]
NoMade == [name |-> "", config |-> [model |-> Undefined, workdir |-> Undefined,
                                    skipPermissions |-> Undefined],
           outcome |-> "none", runner |-> NoRunner, error |-> "", constructed |-> 0]

\* ------------------------------------------------------ ProcessManager
\* ChildProcess.kill on a live child: the signal is sent and killed is set.
\* A child counts as live until its 'close' event; every kill in the program
\* is on a child whose 'close' has not been delivered.
kill(P, p) == [P EXCEPT ![p].killed = TRUE]

\* ProcessManager.stop
stop_noDelete(P, R, k) ==
    LET q == R[k] IN
    IF q # None /\ ~P[q].killed
    THEN [procs |-> kill(P, q), registry |-> R, ret |-> TRUE]
    ELSE [procs |-> P, registry |-> R, ret |-> FALSE]

stop(P, R, k) ==
    LET q == R[k] IN
    IF q # None /\ ~P[q].killed
    THEN [procs |-> kill(P, q), registry |-> [R EXCEPT ![k] = None], ret |-> TRUE]
    ELSE [procs |-> P, registry |-> R, ret |-> FALSE]

\* ProcessManager.stopAll: stop every key of the map (K: the keys left to visit)
RECURSIVE stopAll_first(_, _, _)
stopAll_first(P, R, K) ==
    IF K = {}
    THEN [procs |-> P, registry |-> R]
    ELSE LET k == CHOOSE x \in K : TRUE
             s == stop(P, R, k)
         IN [procs |-> s.procs, registry |-> s.registry]

RECURSIVE stopAll(_, _, _)
stopAll(P, R, K) ==
    IF K = {}
    THEN [procs |-> P, registry |-> R]
    ELSE LET k == CHOOSE x \in K : TRUE
             s == stop(P, R, k)
         IN stopAll(s.procs, s.registry, K \ {k})

\* ProcessManager.register: stop the entry of the key, then store the process
register_stopAll(P, R, k, p) ==
    LET s == stopAll(P, R, {j \in Keys : R[j] # None})
    IN [procs |-> s.procs, registry |-> [s.registry EXCEPT ![k] = p]]

register_noStop(P, R, k, p) ==
    [procs |-> P, registry |-> [R EXCEPT ![k] = p]]

register_keepOld(P, R, k, p) ==
    LET s == stop(P, R, k) IN
    [procs |-> s.procs,
     registry |-> IF R[k] = None THEN [s.registry EXCEPT ![k] = p] ELSE R]

register(P, R, k, p) ==
    LET s == stop(P, R, k) IN
    [procs |-> s.procs, registry |-> [s.registry EXCEPT ![k] = p]]

\* the 'close' listener that register installs on the process
registryOnClose_noGuard(R, k, p) ==
    [R EXCEPT ![k] = None]

registryOnClose(R, k, p) ==
    IF R[k] = p THEN [R EXCEPT ![k] = None] ELSE R

\* ProcessManager.isRunning
isRunning_entryOnly(P, R, k) ==
    R[k] # None

isRunning(P, R, k) ==
    R[k] # None /\ ~P[R[k]].killed

\* ------------------------------------------------------------- runners
\* The state the handlers read and write, passed through them as a record.
St == [procs |-> procs, runs |-> runs, registry |-> registry,
       current |-> current, lastReg |-> lastReg]

\* this.currentProcess = x (CodexRunner and GeminiRunner only)
setCurrent(S, x) ==
    IF backend \in Cancellable THEN [S EXCEPT !.current = x] ELSE S

\* callbacks.onText?.(text, fullText); lateText records an invocation that
\* follows an onComplete or onError of the same call
onText(S, r) ==
    [S EXCEPT !.runs[r].lateText =
        @ \/ (S.runs[r].nComplete + S.runs[r].nError > 0)]

\* callbacks.onError?.(error)
onError(S, r) == [S EXCEPT !.runs[r].nError = Inc(@)]

\* callbacks.onComplete?.(result)
onComplete(S, r) == [S EXCEPT !.runs[r].nComplete = Inc(@)]

\* GeminiRunner.run / runStream catch: retry once without the session id when
\* the awaited execute rejected with the close handler's "exited with code"
\* message (the timeout and spawn messages do not contain it; a parse failure
\* message is taken not to contain it either)
shouldRetry_always(b, session, attempt, e) ==
    b = "gemini" /\ session /\ attempt = 1

shouldRetry(b, session, attempt, e) ==
    b = "gemini" /\ session /\ attempt = 1 /\ e = "exit"

\* the continuation of run / runStream after the awaited promise rejected
afterReject(S, r, attempt, e) ==
    IF shouldRetry(backend, S.runs[r].session, attempt, e)
    THEN [S EXCEPT !.runs[r].retry = TRUE]
    ELSE [S EXCEPT !.runs[r].status = "rejected", !.runs[r].err = e]

\* the outputs a non-streaming process can leave on stdout, by what the
\* runner's parser makes of them
Outs(b) ==
    CASE b = "codex" -> {"ok", "garbage"}
      [] b = "claude" -> {"ok", "iserror", "garbage"}
      [] b = "gemini" -> {"ok", "garbage"}

\* the last line a streaming process can leave in the buffer without a
\* newline, by what the close handler's flush makes of it
FlushOuts(b) ==
    IF b = "codex" THEN {"ok"} ELSE {"ok", "iserror"}

\* the continuation of run after execute resolved: extractResult (Codex, never
\* throws: output without a text event is returned as it is), parseResponse
\* (Claude), parseJsonResponse (Gemini); runStream returns the resolved result
\* as it is
afterResolve(S, r, attempt, out) ==
    IF S.runs[r].mode = "stream" \/ out = "ok" \/ backend = "codex"
    THEN [S EXCEPT !.runs[r].status = "resolved"]
    ELSE IF out = "iserror"
         THEN afterReject(S, r, attempt, "backend")
         ELSE afterReject(S, r, attempt, "parse")

\* reject(error) of the promise of the execute call of process p
reject(S, p, e) ==
    IF S.procs[p].promise = "pending"
    THEN afterReject([S EXCEPT !.procs[p].promise = "rejected", !.procs[p].perr = e],
                     S.procs[p].run, S.procs[p].attempt, e)
    ELSE S

\* resolve(value) of the promise of the execute call of process p
resolve(S, p, out) ==
    IF S.procs[p].promise = "pending"
    THEN afterResolve([S EXCEPT !.procs[p].promise = "resolved"],
                      S.procs[p].run, S.procs[p].attempt, out)
    ELSE S

\* the setTimeout callback of execute / executeStream
timeoutHandler_noReject(S, p) ==
    LET S0 == [S EXCEPT !.procs = kill(S.procs, p)]
    IN setCurrent([S0 EXCEPT !.procs[p].timer = FALSE], None)

timeoutHandler_noKill(S, p) ==
    LET r == S.procs[p].run
        S1 == setCurrent([S EXCEPT !.procs[p].timer = FALSE], None)
        S2 == IF S.runs[r].mode = "stream" THEN onError(S1, r) ELSE S1
    IN reject(S2, p, "timeout")

timeoutHandler(S, p) ==
    LET r == S.procs[p].run
        S0 == [S EXCEPT !.procs = kill(S.procs, p)]
        S1 == setCurrent([S0 EXCEPT !.procs[p].timer = FALSE], None)
        S2 == IF S.runs[r].mode = "stream" THEN onError(S1, r) ELSE S1
    IN reject(S2, p, "timeout")

\* clearTimeout(timeout) in the close and error handlers
clearTimeout_noop(S, p) == S

clearTimeout(S, p) == [S EXCEPT !.procs[p].timer = FALSE]

\* proc.on('close', (code) => ...) of execute / executeStream
closeHandler_ignoreCode(S, p, code, out) ==
    LET r == S.procs[p].run
        S1 == setCurrent(clearTimeout(S, p), None)
    IN IF S.runs[r].mode = "stream"
       THEN resolve(onComplete(S1, r), p, out)
       ELSE resolve(S1, p, out)

closeHandler(S, p, code, out) ==
    LET r == S.procs[p].run
        S1 == setCurrent(clearTimeout(S, p), None)
    IN IF code # "zero"
       THEN IF S.runs[r].mode = "stream"
            THEN reject(onError(S1, r), p, "exit")
            ELSE reject(S1, p, "exit")
       ELSE IF S.runs[r].mode = "stream"
            THEN resolve(onComplete(S1, r), p, out)
            ELSE resolve(S1, p, out)

\* proc.on('error', (err) => ...) of execute / executeStream
errorHandler(S, p) ==
    LET r == S.procs[p].run
        S1 == setCurrent(clearTimeout(S, p), None)
        S2 == IF S.runs[r].mode = "stream" THEN onError(S1, r) ELSE S1
    IN reject(S2, p, "spawn")

\* proc.stdout.on('data', ...) of executeStream, for a chunk holding one line:
\* "text" is a line carrying assistant text, "error" a terminal result line
\* that signals an error (Claude: is_error, Gemini: status error; Codex has no
\* such event and takes the line as any other)
stdoutHandler(S, p, ev) ==
    LET r == S.procs[p].run
        S1 == [S EXCEPT !.procs[p].events = @ + 1]
    IN IF ev = "error" /\ backend # "codex"
       THEN reject(onError([S1 EXCEPT !.procs[p].resultErr = TRUE], r), p, "backend")
       ELSE onText([S1 EXCEPT !.procs[p].text = TRUE], r)

\* the 'close' event of process p: the registry's listener was installed first
\* (register runs before proc.on('close')), then the runner's. out is what the
\* process left undecoded: the whole stdout of a non-streaming process, the
\* unterminated last line in the buffer of a streaming one ("iserror": a
\* terminal result that signals an error).
closeEvent(S, p, code, out) ==
    LET k == S.procs[p].key
        S1 == [S EXCEPT !.procs[p].state = "closed", !.procs[p].code = code,
                        !.procs[p].out = out,
                        !.procs[p].resultErr = @ \/ (out = "iserror")]
        S2 == IF k # NoKey
              THEN [S1 EXCEPT !.registry = registryOnClose(S1.registry, k, p)]
              ELSE S1
    IN closeHandler(S2, p, code, out)

FreeProcs(P) == {p \in ProcIds : P[p].state = "unborn"}
NextProc(P) == CHOOSE p \in FreeProcs(P) : \A q \in FreeProcs(P) : p <= q

\* execute / executeStream up to the return of the Promise executor: spawn,
\* currentProcess, register under the key, arm the timer. A child that could
\* not be launched is left in state "spawnfail" for SpawnError.
execute(S, r, attempt, fail) ==
    LET p == NextProc(S.procs)
        k == S.runs[r].key
        old == IF k # NoKey THEN S.registry[k] ELSE None
        S1 == [S EXCEPT !.procs[p] = [NoProc EXCEPT !.run = r, !.key = k,
                                       !.attempt = attempt, !.timer = TRUE,
                                       !.failed = fail,
                                       !.state = IF fail THEN "spawnfail"
                                                 ELSE "running"]]
        S2 == setCurrent(S1, p)
        reg == register(S2.procs, S2.registry, k, p)
        S3 == IF k # NoKey
              THEN [S2 EXCEPT !.procs = reg.procs, !.registry = reg.registry,
                              !.lastReg = [key |-> k, old |-> old, new |-> p]]
              ELSE S2
        S4 == IF old # None THEN [S3 EXCEPT !.procs[old].superseded = TRUE] ELSE S3
    IN S4

\* ------------------------------------------------------------- actions
CommitOp(S, op) ==
    /\ procs' = S.procs
    /\ runs' = S.runs
    /\ registry' = S.registry
    /\ current' = S.current
    /\ lastReg' = S.lastReg
    /\ lastOp' = op
    /\ UNCHANGED <<backend, dec, chat, cmd, msg, made>>

Commit(S) == CommitOp(S, lastOp)

\* a pending retry continuation (a microtask) and the report of a spawn failure
\* (process.nextTick) run before any other callback
NoMicrotask ==
    /\ \A r \in RunIds : ~runs[r].retry
    /\ \A p \in ProcIds : procs[p].state # "spawnfail"

\* processes a pending run may still need for its resume retry
Reserved ==
    Cardinality({r \in RunIds :
        /\ runs[r].status = "pending" /\ runs[r].session /\ backend = "gemini"
        /\ ~\E p \in ProcIds : procs[p].run = r /\ procs[p].attempt = 2})

Init ==
    /\ backend \in Backends
    /\ procs = [p \in ProcIds |-> NoProc]
    /\ runs = [r \in RunIds |-> NoRun]
    /\ registry = [k \in Keys |-> None]
    /\ current = None
    /\ lastReg = [key |-> NoKey, old |-> None, new |-> None]
    /\ lastOp = NoOp
    /\ dec = NewDec("none", <<>>)
    /\ chat = NoChat
    /\ cmd = NoCmd
    /\ msg = NoMsg
    /\ made = NoMade

\* a caller invokes run(prompt, options) or runStream(prompt, callbacks, options)
\* with its channel id as the key (the keys are interchangeable: the first call
\* uses the first key)
StartRun(m, k, s, fail) ==
    /\ NoMicrotask
    /\ (runs[1].status = "idle" => k = "k1")
    /\ \E r \in RunIds :
        /\ runs[r].status = "idle"
        /\ \A q \in RunIds : q < r => runs[q].status # "idle"
        /\ Cardinality(FreeProcs(procs)) - Reserved
              >= (IF backend = "gemini" /\ s THEN 2 ELSE 1)
        /\ LET S1 == [St EXCEPT !.runs[r] = [NoRun EXCEPT !.status = "pending",
                                  !.mode = m, !.key = k, !.session = s]]
           IN Commit(execute(S1, r, 1, fail))

\* the retry of GeminiRunner.run / runStream: execute without the session id
Retry(r, fail) ==
    /\ runs[r].retry
    /\ Commit(execute([St EXCEPT !.runs[r].retry = FALSE], r, 2, fail))

\* Node reports a spawn failure: the 'error' event and then the 'close' event
\* with a negative code
SpawnError(p) ==
    /\ procs[p].state = "spawnfail"
    /\ Commit(closeEvent(errorHandler(St, p), p, "nonzero", "ok"))

\* a chunk arrives on the stdout of a streaming process
StdoutData(p, ev) ==
    /\ NoMicrotask
    /\ procs[p].state = "running"
    /\ runs[procs[p].run].mode = "stream"
    /\ procs[p].events < MaxEvents
    /\ Commit(stdoutHandler(St, p, ev))

\* the timer of process p expires
Timeout(p) ==
    /\ NoMicrotask
    /\ procs[p].timer
    /\ Commit(timeoutHandler([St EXCEPT !.procs[p].timedOut = TRUE], p))

\* process p exits and its stdio closes: a signalled process ends by the signal
\* or had already finished with status 0
Close(p, code, out) ==
    /\ NoMicrotask
    /\ procs[p].state = "running"
    /\ code \in (IF procs[p].killed THEN {"zero", "signal"} ELSE {"zero", "nonzero"})
    /\ out \in (IF code = "zero" /\ procs[p].promise = "pending"
                THEN (IF runs[procs[p].run].mode = "run" THEN Outs(backend)
                      ELSE FlushOuts(backend))
                ELSE {"ok"})
    /\ Commit(closeEvent(St, p, code, out))

\* processManager.stop(channelId) called on state S; stopped records that the
\* run of the signalled process was pending
stopCall(S, k) ==
    LET q == S.registry[k]
        s == stop(S.procs, S.registry, k)
        P1 == IF s.ret /\ S.runs[S.procs[q].run].status = "pending"
              THEN [s.procs EXCEPT ![q].stopped = TRUE] ELSE s.procs
    IN [S EXCEPT !.procs = P1, !.registry = s.registry]

\* the /stop command: processManager.stop(channelId)
Stop(k) ==
    /\ NoMicrotask
    /\ Commit(stopCall(St, k))

\* CodexRunner.cancel / GeminiRunner.cancel
cancel_keepCurrent(S) ==
    IF S.current = None
    THEN [st |-> S, ret |-> FALSE]
    ELSE [st |-> [S EXCEPT !.procs = kill(S.procs, S.current)], ret |-> TRUE]

cancel(S) ==
    IF S.current = None
    THEN [st |-> S, ret |-> FALSE]
    ELSE [st |-> [S EXCEPT !.procs = kill(S.procs, S.current), !.current = None],
          ret |-> TRUE]

Cancel ==
    /\ NoMicrotask
    /\ backend \in Cancellable
    /\ current # None
    /\ LET S1 == cancel(St).st
       IN Commit(IF runs[procs[current].run].status = "pending"
                 THEN [S1 EXCEPT !.procs[current].stopped = TRUE] ELSE S1)

Next ==
    \/ \E m \in Modes, k \in Keys, s \in BOOLEAN, fail \in BOOLEAN :
          StartRun(m, k, s, fail)
    \/ \E r \in RunIds, fail \in BOOLEAN : Retry(r, fail)
    \/ \E p \in ProcIds : SpawnError(p)
    \/ \E p \in ProcIds, ev \in {"text", "error"} : StdoutData(p, ev)
    \/ \E p \in ProcIds : Timeout(p)
    \/ \E p \in ProcIds, code \in {"zero", "nonzero", "signal"},
          out \in {"ok", "iserror", "garbage"} : Close(p, code, out)
    \/ \E k \in Keys : Stop(k)
    \/ Cancel

Spec == Init /\ [][Next]_vars

\* The same behaviours under the scheduling Node guarantees: a pending
\* continuation and the report of a spawn failure run, and an armed timer
\* fires. Nothing makes a process exit.
Fairness ==
    /\ \A r \in RunIds : WF_vars(\E fail \in BOOLEAN : Retry(r, fail))
    /\ \A p \in ProcIds : WF_vars(SpawnError(p))
    /\ \A p \in ProcIds : WF_vars(Timeout(p))

\* the runs of one conversation: every run is on the same key, so each
\* supersedes the one before it
LiveNext ==
    \/ \E m \in Modes, s \in BOOLEAN, fail \in BOOLEAN : StartRun(m, "k1", s, fail)
    \/ \E r \in RunIds, fail \in BOOLEAN : Retry(r, fail)
    \/ \E p \in ProcIds : SpawnError(p)
    \/ \E p \in ProcIds, ev \in {"text", "error"} : StdoutData(p, ev)
    \/ \E p \in ProcIds : Timeout(p)
    \/ \E p \in ProcIds, code \in {"zero", "nonzero", "signal"},
          out \in {"ok", "iserror", "garbage"} : Close(p, code, out)
    \/ Stop("k1")

LiveSpec == Init /\ [][LiveNext]_vars /\ Fairness

\* ------------------------------------------- the API seen by its callers
\* A second specification: non-streaming runs, and callers of stop, stopAll
\* and cancel that observe the value each call returns.
Signalled(P, Q) == Cardinality({p \in ProcIds : ~P[p].killed /\ Q[p].killed})

Called(op, k, ret, S) ==
    [op |-> op, key |-> k, ret |-> ret, n |-> Signalled(procs, S.procs),
     seq |-> 1 - lastOp.seq]

\* a caller invokes processManager.stop(key) and reads its return value
StopCall(k) ==
    /\ NoMicrotask
    /\ LET S1 == stopCall(St, k)
       IN CommitOp(S1, Called("stop", k, stop(procs, registry, k).ret, S1))

\* a caller invokes processManager.stopAll()
StopAllCall ==
    /\ NoMicrotask
    /\ LET s == stopAll(procs, registry, {k \in Keys : registry[k] # None})
           S1 == [St EXCEPT !.procs = s.procs, !.registry = s.registry]
       IN CommitOp(S1, Called("stopAll", NoKey, FALSE, S1))

\* a caller invokes runner.cancel() and reads its return value
CancelCall ==
    /\ NoMicrotask
    /\ backend \in Cancellable
    /\ LET c == cancel(St)
       IN CommitOp(c.st, Called("cancel", NoKey, c.ret, c.st))

ApiNext ==
    \/ \E k \in Keys : StartRun("run", k, FALSE, FALSE)
    \/ \E p \in ProcIds : Timeout(p)
    \/ \E p \in ProcIds, code \in {"zero", "nonzero", "signal"} : Close(p, code, "ok")
    \/ \E k \in Keys : StopCall(k)
    \/ StopAllCall
    \/ CancelCall

ApiSpec == Init /\ [][ApiNext]_vars

\* ------------------------------------------------------ stream decoding
\* A third specification: the stdout of one process, byte by byte, cut into
\* chunks in every possible way, and the handlers of executeStream (and of
\* CodexRunner.execute / extractResult) decoding it.
\*
\* Bytes: "nl" the newline, "sp" a space, "x" an ASCII byte that is no JSON,
\* "hi" "lo" the two bytes of one UTF-8 character, and the bytes of JSON text
\* taken as units: "S" an object carrying the session id "s1" and no text
\* (Codex thread.started, Claude result, Gemini init), "E" a result object
\* signalling an error, with session id "s1" and no result text (Claude
\* is_error, Gemini status error), "T" ... "Q" an object carrying text (Codex
\* item.completed agent_message, Claude assistant with one text block, Gemini
\* assistant message), the text being the bytes between "T" and "Q";
\* "R" ... "Q" a result object that signals no error, with session id "s1"
\* and the bytes between "R" and "Q" as its result text; "D" ... "Q" a Codex
\* message_delta object with the bytes between "D" and "Q" as its content.
\* Characters: the same, with "U" the two-byte character and "?" U+FFFD.
TextChar == {"sp", "x", "U", "?"}
Whitespace == {"sp", "nl"}

\* Buffer.toString(): UTF-8 decoding of one chunk; the bytes of an incomplete
\* character decode to U+FFFD
RECURSIVE toString(_)
toString(bs) ==
    IF bs = <<>> THEN <<>>
    ELSE IF bs[1] = "hi"
         THEN IF Len(bs) >= 2 /\ bs[2] = "lo"
              THEN <<"U">> \o toString(SubSeq(bs, 3, Len(bs)))
              ELSE <<"?">> \o toString(Tail(bs))
         ELSE IF bs[1] = "lo"
              THEN <<"?">> \o toString(Tail(bs))
              ELSE <<bs[1]>> \o toString(Tail(bs))

\* String.prototype.split('\n')
RECURSIVE split(_)
split(cs) ==
    IF \A i \in 1..Len(cs) : cs[i] # "nl"
    THEN <<cs>>
    ELSE LET i == CHOOSE j \in 1..Len(cs) :
                      cs[j] = "nl" /\ \A m \in 1..(j - 1) : cs[m] # "nl"
         IN <<SubSeq(cs, 1, i - 1)>> \o split(SubSeq(cs, i + 1, Len(cs)))

\* String.prototype.trim()
RECURSIVE trimStart(_)
trimStart(cs) ==
    IF cs # <<>> /\ cs[1] \in Whitespace THEN trimStart(Tail(cs)) ELSE cs

RECURSIVE trimEnd(_)
trimEnd(cs) ==
    IF cs # <<>> /\ cs[Len(cs)] \in Whitespace
    THEN trimEnd(SubSeq(cs, 1, Len(cs) - 1)) ELSE cs

trim(cs) == trimEnd(trimStart(cs))

\* JSON.parse: one object, whitespace around it allowed; "bad" is a SyntaxError
JSONparse(cs) ==
    LET t == trim(cs) IN
    IF t = <<"S">> THEN [type |-> "session", text |-> <<>>]
    ELSE IF t = <<"E">> THEN [type |-> "error", text |-> <<>>]
    ELSE IF /\ Len(t) >= 2 /\ t[1] = "T" /\ t[Len(t)] = "Q"
            /\ \A i \in 2..(Len(t) - 1) : t[i] \in TextChar
         THEN [type |-> "text", text |-> SubSeq(t, 2, Len(t) - 1)]
    ELSE IF /\ Len(t) >= 2 /\ t[1] = "R" /\ t[Len(t)] = "Q"
            /\ \A i \in 2..(Len(t) - 1) : t[i] \in TextChar
         THEN [type |-> "result", text |-> SubSeq(t, 2, Len(t) - 1)]
    ELSE IF /\ Len(t) >= 2 /\ t[1] = "D" /\ t[Len(t)] = "Q"
            /\ \A i \in 2..(Len(t) - 1) : t[i] \in TextChar
         THEN [type |-> "delta", text |-> SubSeq(t, 2, Len(t) - 1)]
         ELSE [type |-> "bad", text |-> <<>>]

call(D, cb, delta, total) ==
    [D EXCEPT !.calls = Append(@, [cb |-> cb, delta |-> delta, total |-> total])]

settle(D, how, e, res) ==
    IF D.promise = "pending"
    THEN [D EXCEPT !.promise = how, !.err = e, !.result = res]
    ELSE D

\* the accumulated text after a text event: fullText = extracted.text
\* (CodexRunner), fullText += text (ClaudeCodeRunner, GeminiRunner)
accumulate_append(b, acc, text) ==
    acc \o text

accumulate(b, acc, text) ==
    IF b = "codex" THEN text ELSE acc \o text

\* mergeTexts(streamed, result) of agent-runner: the result when nothing was
\* streamed or when it starts with the streamed text, else the streamed text
\* followed by the result
IsPrefix(a, r) == Len(a) <= Len(r) /\ SubSeq(r, 1, Len(a)) = a

mergeTexts(a, r) ==
    IF a = <<>> \/ IsPrefix(a, r) THEN r ELSE a \o r

\* the accumulated text after a result event that signals no error:
\* if (json.result) fullText = mergeTexts(fullText, json.result)
\* (ClaudeCodeRunner); the result fallback of extractText (CodexRunner);
\* GeminiRunner reads no text from a result
resultText_overwrite(b, acc, r) ==
    IF r = <<>> \/ b = "gemini" THEN acc ELSE r

resultText(b, acc, r) ==
    IF r = <<>> \/ b = "gemini" THEN acc
    ELSE IF b = "codex" THEN accumulate(b, acc, r)
    ELSE mergeTexts(acc, r)

\* what the line loop does with a message_delta object: extractSessionId
\* finds no id in it and extractText returns null for it, so nothing
extractDelta(b, more, content) == more

\* the body of the for loop of the executeStream stdout handler for one line;
\* stop: the handler returned from inside the loop
lineBody(b, D, line) ==
    LET D0 == [D EXCEPT !.handed = Append(@, line)]
        j == JSONparse(line)
        more == [D |-> D0, stop |-> FALSE]
    IN IF trim(line) = <<>> \/ j.type = "bad" THEN more
       ELSE IF j.type = "delta" THEN extractDelta(b, more, j.text)
       ELSE CASE b = "codex" ->
                 LET D1 == IF j.type \in {"session", "error", "result"}
                           THEN [D0 EXCEPT !.sessionId = "s1"] ELSE D0
                 IN IF j.type = "text" /\ j.text # <<>>
                    THEN [more EXCEPT !.D =
                             call([D1 EXCEPT !.fullText = accumulate(b, @, j.text)],
                                  "onText", j.text, accumulate(b, D1.fullText, j.text))]
                    ELSE IF j.type = "result" /\ j.text # <<>>
                    THEN [more EXCEPT !.D =
                             call([D1 EXCEPT !.fullText = resultText(b, @, j.text)],
                                  "onText", j.text, resultText(b, D1.fullText, j.text))]
                    ELSE [more EXCEPT !.D = D1]
              [] b = "claude" ->
                 IF j.type = "text"
                 THEN [more EXCEPT !.D =
                          call([D0 EXCEPT !.fullText = accumulate(b, @, j.text)],
                               "onText", j.text, accumulate(b, D0.fullText, j.text))]
                 ELSE LET D1 == [D0 EXCEPT !.sessionId = "s1"]
                      IN IF j.type = "error"
                         THEN [D |-> settle(call(D1, "onError", <<>>, <<>>),
                                            "rejected", "backend", D1.result),
                               stop |-> TRUE]
                         ELSE [more EXCEPT !.D =
                                  [D1 EXCEPT !.fullText = resultText(b, @, j.text)]]
              [] b = "gemini" ->
                 IF j.type = "text"
                 THEN IF j.text # <<>>
                      THEN [more EXCEPT !.D =
                               call([D0 EXCEPT !.fullText = accumulate(b, @, j.text)],
                                    "onText", j.text, accumulate(b, D0.fullText, j.text))]
                      ELSE more
                 ELSE LET D1 == [D0 EXCEPT !.sessionId = "s1"]
                      IN IF j.type = "error"
                         THEN [D |-> settle(call(D1, "onError", <<>>, <<>>),
                                            "rejected", "backend", D1.result),
                               stop |-> TRUE]
                         ELSE [more EXCEPT !.D =
                                  [D1 EXCEPT !.fullText = resultText(b, @, j.text)]]

RECURSIVE lineLoop(_, _, _)
lineLoop(b, D, lines) ==
    IF lines = <<>> THEN D
    ELSE LET r == lineBody(b, D, lines[1])
         IN IF r.stop THEN r.D ELSE lineLoop(b, r.D, Tail(lines))

\* proc.stdout.on('data') of executeStream after data.toString()
streamText(b, D, cs) ==
    LET lines == split(D.buffer \o cs)
    IN lineLoop(b, [D EXCEPT !.buffer = lines[Len(lines)]],
                SubSeq(lines, 1, Len(lines) - 1))

streamData(b, D, chunk) == streamText(b, D, toString(chunk))

\* the close handler's processing of what is left in the buffer
flush(b, D) ==
    LET j == JSONparse(D.buffer) IN
    IF trim(D.buffer) = <<>> \/ j.type \in {"bad", "delta"} THEN D
    ELSE CASE b = "codex" ->
              LET D1 == IF j.type \in {"session", "error", "result"}
                        THEN [D EXCEPT !.sessionId = "s1"] ELSE D
              IN IF j.type = "text" /\ j.text # <<>>
                 THEN [D1 EXCEPT !.fullText = accumulate(b, @, j.text)]
                 ELSE [D1 EXCEPT !.fullText = resultText(b, @, j.text)]
           [] b = "claude" ->
              IF j.type = "text" THEN [D EXCEPT !.fullText = accumulate(b, @, j.text)]
              ELSE [D EXCEPT !.sessionId = "s1",
                             !.fullText = resultText(b, @, j.text)]
           [] b = "gemini" ->
              IF j.type = "text" THEN [D EXCEPT !.fullText = accumulate(b, @, j.text)]
              ELSE [D EXCEPT !.sessionId = "s1",
                             !.fullText = resultText(b, @, j.text)]

\* proc.on('close') of executeStream
streamClose(b, D, code) ==
    LET D1 == [flush(b, D) EXCEPT !.closed = code]
        res == [text |-> D1.fullText, sid |-> D1.sessionId]
    IN IF code # "zero"
       THEN settle(call(D1, "onError", <<>>, <<>>), "rejected", "exit", D1.result)
       ELSE settle(call(D1, "onComplete", <<>>, D1.fullText), "resolved", "none", res)

\* proc.stdout.on('data') of CodexRunner.execute: the chunk is appended to
\* stdout and its own lines are searched for a session id
RECURSIVE sessionOf(_, _)
sessionOf(sid, lines) ==
    IF lines = <<>> THEN sid
    ELSE sessionOf(IF trim(lines[1]) # <<>>
                      /\ JSONparse(lines[1]).type \in {"session", "error", "result"}
                   THEN "s1" ELSE sid,
                   Tail(lines))

runData(D, chunk) ==
    LET cs == toString(chunk)
    IN [D EXCEPT !.stdout = @ \o cs, !.sessionId = sessionOf(@, split(cs))]

\* CodexRunner.extractResult: the text of the last line carrying text, or the
\* output as it is when no line carries text
RECURSIVE messageParts(_)
messageParts(lines) ==
    IF lines = <<>> THEN <<>>
    ELSE LET j == JSONparse(lines[1])
         IN (IF trim(lines[1]) # <<>> /\ j.type \in {"text", "result"} /\ j.text # <<>>
             THEN <<j.text>> ELSE <<>>) \o messageParts(Tail(lines))

extractResult(output) ==
    LET parts == messageParts(split(trim(output)))
    IN IF Len(parts) > 0 THEN parts[Len(parts)] ELSE output

\* proc.on('close') of CodexRunner.execute and the rest of run
runClose(D, code) ==
    LET D1 == [D EXCEPT !.closed = code]
    IN IF code # "zero"
       THEN settle(D1, "rejected", "exit", D1.result)
       ELSE settle(D1, "resolved", "none",
                   [text |-> extractResult(D1.stdout), sid |-> D1.sessionId])

\* the outputs of a process: up to MaxLines lines, the last one with or
\* without its newline
LineSet ==
    {<<"S">>, <<"T", "x", "Q">>, <<"T", "hi", "lo", "Q">>, <<"E">>,
     <<"R", "x", "x", "Q">>, <<>>, <<"sp">>, <<"x">>}

RECURSIVE terminated(_)
terminated(ls) ==
    IF ls = <<>> THEN <<>> ELSE ls[1] \o <<"nl">> \o terminated(Tail(ls))

\* the lines of backend b: a message_delta is an event of the exec-style CLI
LinesOf(b) == IF b = "codex" THEN LineSet \cup {<<"D", "x", "Q">>} ELSE LineSet

Scripts(b) ==
    UNION {{terminated(ls) : ls \in [1..n -> LinesOf(b)]} : n \in 0..MaxLines}
    \cup UNION {{terminated(SubSeq(ls, 1, n - 1)) \o ls[n] : ls \in [1..n -> LinesOf(b)]}
                  : n \in 1..MaxLines}

\* exec-style output is decoded line by line in both modes; the print-style
\* backends decode lines in streaming mode only
DecModes(b) == IF b = "codex" THEN {"run", "stream"} ELSE {"stream"}

DecInit ==
    /\ backend \in Backends
    /\ procs = [p \in ProcIds |-> NoProc]
    /\ runs = [r \in RunIds |-> NoRun]
    /\ registry = [k \in Keys |-> None]
    /\ current = None
    /\ lastReg = [key |-> NoKey, old |-> None, new |-> None]
    /\ lastOp = NoOp
    /\ dec \in {NewDec(m, s) : m \in DecModes(backend), s \in Scripts(backend)}
    /\ chat = NoChat
    /\ cmd = NoCmd
    /\ msg = NoMsg
    /\ made = NoMade

Quiet == UNCHANGED <<backend, procs, runs, registry, current, lastReg, lastOp, chat, cmd, msg, made>>

\* the next n bytes of the output arrive as one chunk
Chunk(n) ==
    /\ dec.closed = "none"
    /\ dec.pos + n <= Len(dec.script)
    /\ LET chunk == SubSeq(dec.script, dec.pos + 1, dec.pos + n)
           D == [dec EXCEPT !.pos = @ + n]
       IN dec' = IF dec.mode = "stream" THEN streamData(backend, D, chunk)
                 ELSE runData(D, chunk)
    /\ Quiet

\* the process has written its output and exits
Exit(code) ==
    /\ dec.closed = "none"
    /\ dec.pos = Len(dec.script)
    /\ dec' = IF dec.mode = "stream" THEN streamClose(backend, dec, code)
              ELSE runClose(dec, code)
    /\ Quiet

DecNext ==
    \/ \E n \in 1..(5 * MaxLines) : Chunk(n)
    \/ \E code \in {"zero", "nonzero"} : Exit(code)

DecSpec == DecInit /\ [][DecNext]_vars

\* ------------------------------------------------------- chat sessions
\* A fourth specification: the sessions map of the chat adapter under messages,
\* runs that succeed with whatever session id the runner returns or fail, and
\* new-session commands.

\* if (options?.sessionId): the session id a runner resumes, Absent when the
\* option is undefined or empty
resumeOf(sessionId) == IF sessionId \in {Absent, ""} THEN Absent ELSE sessionId

\* processPrompt up to its first await after: const sessionId = sessions.get(channelId)
ProcessPrompt(c, k) ==
    /\ chat.prompts[c].state = "idle"
    /\ \A d \in PromptIds : d < c => chat.prompts[d].state # "idle"
    /\ chat' = [chat EXCEPT !.prompts[c] =
                   [NoPrompt EXCEPT !.state = "read", !.key = k,
                                    !.sessionId = chat.sessions[k]],
                            !.fresh[k] = FALSE]

\* agentRunner.run / runStream(prompt, ..., { skipPermissions, sessionId, channelId })
RunStarts(c) ==
    /\ chat.prompts[c].state = "read"
    /\ chat' = [chat EXCEPT !.prompts[c].state = "running",
                            !.prompts[c].resume = resumeOf(chat.prompts[c].sessionId)]

\* the awaited run resolved with session id sid: sessions.set(channelId,
\* newSessionId). e: the terminal result of the process signalled an error and
\* the runner resolved all the same (the exit flush of the print-style
\* executeStream, see streamClose)
RunResolves(c, sid, e) ==
    /\ chat.prompts[c].state = "running"
    /\ e => backend # "codex" /\ sid # ""
    /\ chat' = [chat EXCEPT !.prompts[c].state = "done",
                            !.prompts[c].resultErr = e,
                            !.sessions[chat.prompts[c].key] = sid]

\* the awaited run rejected: the catch block replies with an error message
RunRejects(c) ==
    /\ chat.prompts[c].state = "running"
    /\ chat' = [chat EXCEPT !.prompts[c].state = "failed"]

\* the /new command: sessions.delete(channelId)
NewSession(k) ==
    chat' = [chat EXCEPT !.sessions[k] = Absent, !.fresh[k] = TRUE]

ChatQuiet == UNCHANGED <<backend, procs, runs, registry, current, lastReg, lastOp, dec, cmd, msg, made>>

ChatNext ==
    \/ \E c \in PromptIds, k \in Keys : ProcessPrompt(c, k) /\ ChatQuiet
    \/ \E c \in PromptIds : RunStarts(c) /\ ChatQuiet
    \/ \E c \in PromptIds, sid \in SessionIds, e \in BOOLEAN :
          RunResolves(c, sid, e) /\ ChatQuiet
    \/ \E c \in PromptIds : RunRejects(c) /\ ChatQuiet
    \/ \E k \in Keys : NewSession(k) /\ ChatQuiet

ChatSpec == Init /\ [][ChatNext]_vars

\* -------------------------------------------------------- command lines
\* A fifth specification: the argv the runners hand to spawn, for every runner
\* configuration and request of a bounded set.

\* if (v): an optional string that is given and not empty
Truthy(v) == v \notin {Undefined, ""}

\* const skip = options?.skipPermissions ?? this.skipPermissions
skipOf(c) ==
    IF c.options.skipPermissions = Undefined THEN c.skipPermissions
    ELSE c.options.skipPermissions = "true"

\* CodexRunner.buildArgs: the permission-mode flag
permissionFlag_fullAuto(skip) == <<"--full-auto">>

permissionFlag(skip) ==
    IF skip THEN <<"--dangerously-bypass-approvals-and-sandbox">> ELSE <<"--full-auto">>

\* CodexRunner.buildArgs: the prompt with the system prompt embedded before it
fullPrompt_bare(systemPrompt, prompt) == prompt

fullPrompt(systemPrompt, prompt) ==
    IF systemPrompt # ""
    THEN "<system-context>\n" \o systemPrompt \o "\n</system-context>\n\n" \o prompt
    ELSE prompt

\* CodexRunner.buildArgs(prompt, options)
buildArgs_resumeFirst(c) ==
    <<"exec", "--json">> \o permissionFlag(skipOf(c)) \o <<"--skip-git-repo-check">>
        \o (IF Truthy(c.options.sessionId) THEN <<"resume", c.options.sessionId>> ELSE <<>>)
        \o (IF Truthy(c.model) THEN <<"--model", c.model>> ELSE <<>>)
        \o (IF Truthy(c.workdir) THEN <<"--cd", c.workdir>> ELSE <<>>)
        \o <<fullPrompt(c.systemPrompt, c.prompt)>>

buildArgs(c) ==
    <<"exec", "--json">> \o permissionFlag(skipOf(c)) \o <<"--skip-git-repo-check">>
        \o (IF Truthy(c.model) THEN <<"--model", c.model>> ELSE <<>>)
        \o (IF Truthy(c.workdir) THEN <<"--cd", c.workdir>> ELSE <<>>)
        \o (IF Truthy(c.options.sessionId) THEN <<"resume", c.options.sessionId>> ELSE <<>>)
        \o <<fullPrompt(c.systemPrompt, c.prompt)>>

\* ClaudeCodeRunner.run: const args = ['-p', '--output-format', 'json'] and the pushes
runArgs(c) ==
    <<"-p", "--output-format", "json">>
        \o (IF skipOf(c) THEN <<"--dangerously-skip-permissions">> ELSE <<>>)
        \o (IF Truthy(c.options.sessionId) THEN <<"--resume", c.options.sessionId>> ELSE <<>>)
        \o (IF Truthy(c.model) THEN <<"--model", c.model>> ELSE <<>>)
        \o <<"--append-system-prompt", c.systemPrompt>>
        \o <<c.prompt>>

\* ClaudeCodeRunner.runStream: ['-p', '--output-format', 'stream-json', '--verbose'] and the pushes
runStreamArgs_modelFirst(c) ==
    <<"-p", "--output-format", "stream-json", "--verbose">>
        \o (IF skipOf(c) THEN <<"--dangerously-skip-permissions">> ELSE <<>>)
        \o (IF Truthy(c.model) THEN <<"--model", c.model>> ELSE <<>>)
        \o (IF Truthy(c.options.sessionId) THEN <<"--resume", c.options.sessionId>> ELSE <<>>)
        \o <<"--append-system-prompt", c.systemPrompt>>
        \o <<c.prompt>>

runStreamArgs(c) ==
    <<"-p", "--output-format", "stream-json", "--verbose">>
        \o (IF skipOf(c) THEN <<"--dangerously-skip-permissions">> ELSE <<>>)
        \o (IF Truthy(c.options.sessionId) THEN <<"--resume", c.options.sessionId>> ELSE <<>>)
        \o (IF Truthy(c.model) THEN <<"--model", c.model>> ELSE <<>>)
        \o <<"--append-system-prompt", c.systemPrompt>>
        \o <<c.prompt>>

\* the system prompt buildSystemPrompt() returns: CHAT_SYSTEM_PROMPT_RESUME, with
\* the commands file appended when it can be read; never empty
SystemPrompts == {"chat", "chat\n\n## XANGI_COMMANDS.md\n\ncommands"}

Models == {Undefined, "", "o3"}
Workdirs == {Undefined, "/tmp/test"}
Prompts == {"hello", "", "--full-auto", "resume"}
SkipOptions == {Undefined, "true", "false"}
SessionOptions == {Undefined, "", "abc-123"}

ArgInit ==
    /\ backend \in {"codex", "claude"}
    /\ procs = [p \in ProcIds |-> NoProc]
    /\ runs = [r \in RunIds |-> NoRun]
    /\ registry = [k \in Keys |-> None]
    /\ current = None
    /\ lastReg = [key |-> NoKey, old |-> None, new |-> None]
    /\ lastOp = NoOp
    /\ dec = NewDec("none", <<>>)
    /\ chat = NoChat
    /\ cmd \in [model : Models, workdir : Workdirs, skipPermissions : BOOLEAN,
                systemPrompt : SystemPrompts, prompt : Prompts,
                options : [skipPermissions : SkipOptions, sessionId : SessionOptions],
                by : {"none"}, args : {<<>>}]
    /\ msg = NoMsg
    /\ made = NoMade

ArgQuiet == UNCHANGED <<backend, procs, runs, registry, current, lastReg, lastOp, dec, chat, msg, made>>

\* CodexRunner.run / runStream: const args = this.buildArgs(prompt, options)
BuildArgs ==
    /\ backend = "codex"
    /\ cmd.by = "none"
    /\ cmd' = [cmd EXCEPT !.by = "buildArgs", !.args = buildArgs(cmd)]

\* ClaudeCodeRunner.run up to the spawn
RunArgs ==
    /\ backend = "claude"
    /\ cmd.by \in {"none", "runStream"}
    /\ cmd' = [cmd EXCEPT !.by = "run", !.args = runArgs(cmd)]

\* ClaudeCodeRunner.runStream up to the spawn
RunStreamArgs ==
    /\ backend = "claude"
    /\ cmd.by \in {"none", "run"}
    /\ cmd' = [cmd EXCEPT !.by = "runStream", !.args = runStreamArgs(cmd)]

ArgNext ==
    \/ BuildArgs /\ ArgQuiet
    \/ RunArgs /\ ArgQuiet
    \/ RunStreamArgs /\ ArgQuiet

ArgSpec == ArgInit /\ [][ArgNext]_vars

\* ------------------------------------------------------ command prefixes
\* A sixth specification: what the message handlers of the two chat platforms
\* make of the !skip and !noskip prefixes.

\* String.prototype.startsWith
startsWith(s, p) == Len(s) >= Len(p) /\ SubSeq(s, 1, Len(p)) = p

\* s.replace(/^\s+/, '') and s.replace(/\s+$/, '') on texts whose whitespace is the space
RECURSIVE stripStart(_)
stripStart(s) ==
    IF Len(s) > 0 /\ SubSeq(s, 1, 1) = " " THEN stripStart(SubSeq(s, 2, Len(s))) ELSE s

RECURSIVE stripEnd(_)
stripEnd(s) ==
    IF Len(s) > 0 /\ SubSeq(s, Len(s), Len(s)) = " "
    THEN stripEnd(SubSeq(s, 1, Len(s) - 1)) ELSE s

\* String.prototype.trim
trimText(s) == stripEnd(stripStart(s))

\* s.replace(/\s+/g, ' ')
RECURSIVE collapse(_)
collapse(s) ==
    IF Len(s) < 2 THEN s
    ELSE IF SubSeq(s, 1, 2) = "  " THEN collapse(SubSeq(s, 2, Len(s)))
    ELSE SubSeq(s, 1, 1) \o collapse(SubSeq(s, 2, Len(s)))

\* prompt.replace(/^!skip\s*/, '').trim() for a prompt that starts with prefix p
removePrefix(s, p) == trimText(stripStart(SubSeq(s, Len(p) + 1, Len(s))))

\* Discord MessageCreate handler, from the prompt it extracts to the call of processPrompt
discordMessage(m) ==
    LET prompt == trimText(collapse(m.text))
    IN IF prompt = "" THEN m
       ELSE IF startsWith(prompt, "!skip")
       THEN [m EXCEPT !.handled = TRUE, !.skipPermissions = TRUE,
                      !.prompt = removePrefix(prompt, "!skip")]
       ELSE IF startsWith(prompt, "!noskip")
       THEN [m EXCEPT !.handled = TRUE, !.skipPermissions = FALSE,
                      !.prompt = removePrefix(prompt, "!noskip")]
       ELSE [m EXCEPT !.handled = TRUE, !.skipPermissions = m.default, !.prompt = prompt]

\* Slack processMessage, up to the options it hands to run / runStream
processMessage(m) ==
    IF startsWith(m.text, "!skip")
    THEN [m EXCEPT !.handled = TRUE, !.skipPermissions = m.default,
                   !.prompt = removePrefix(m.text, "!skip")]
    ELSE IF startsWith(m.text, "!noskip")
    THEN [m EXCEPT !.handled = TRUE, !.skipPermissions = m.default,
                   !.prompt = removePrefix(m.text, "!noskip")]
    ELSE [m EXCEPT !.handled = TRUE, !.skipPermissions = m.default, !.prompt = m.text]

Platforms == {"discord", "slack"}
Texts == {"!skip ls", "!skip  ls ", "!skip", "!skipls", "!noskip ls", "!noskip", "!noskip  ls",
          "ls", "ls !skip", " !skip ls", "!skip !skip ls", "!skip !noskip ls", "!noskip !skip ls",
          "", " ", "gh pr  list"}

MsgInit ==
    /\ backend \in {"codex", "claude"}
    /\ procs = [p \in ProcIds |-> NoProc]
    /\ runs = [r \in RunIds |-> NoRun]
    /\ registry = [k \in Keys |-> None]
    /\ current = None
    /\ lastReg = [key |-> NoKey, old |-> None, new |-> None]
    /\ lastOp = NoOp
    /\ dec = NewDec("none", <<>>)
    /\ chat = NoChat
    /\ cmd = NoCmd
    /\ msg \in [platform : Platforms, default : BOOLEAN, text : Texts, handled : {FALSE},
                skipPermissions : {FALSE}, prompt : {""}]
    /\ made = NoMade

MsgQuiet ==
    UNCHANGED <<backend, procs, runs, registry, current, lastReg, lastOp, dec, chat, cmd, made>>

DiscordMessage ==
    /\ msg.platform = "discord" /\ ~msg.handled
    /\ msg' = discordMessage(msg)

SlackMessage ==
    /\ msg.platform = "slack" /\ ~msg.handled
    /\ msg' = processMessage(msg)

MsgNext ==
    \/ DiscordMessage /\ MsgQuiet
    \/ SlackMessage /\ MsgQuiet

MsgSpec == MsgInit /\ [][MsgNext]_vars

\* ------------------------------------------------------- runner factory
\* A seventh specification: createAgentRunner for backend names and
\* configurations of a bounded set.

\* new ClaudeCodeRunner(options): the fields the constructor sets and the
\* public methods of the class
ClaudeCodeRunner(options) ==
    [class |-> "ClaudeCodeRunner", methods |-> {"run", "runStream"},
     model |-> options.model, workdir |-> options.workdir,
     skipPermissions |-> (options.skipPermissions = "true")]

\* new CodexRunner(options)
CodexRunner(options) ==
    [class |-> "CodexRunner", methods |-> {"run", "runStream", "cancel"},
     model |-> options.model, workdir |-> options.workdir,
     skipPermissions |-> (options.skipPermissions = "true")]

\* createAgentRunner(backend, config): the switch on the backend name
createAgentRunner_fallback(m) ==
    IF m.name = "codex"
    THEN [m EXCEPT !.outcome = "returned", !.runner = CodexRunner(m.config),
                   !.constructed = m.constructed + 1]
    ELSE [m EXCEPT !.outcome = "returned", !.runner = ClaudeCodeRunner(m.config),
                   !.constructed = m.constructed + 1]

createAgentRunner(m) ==
    IF m.name = "claude-code"
    THEN [m EXCEPT !.outcome = "returned", !.runner = ClaudeCodeRunner(m.config),
                   !.constructed = m.constructed + 1]
    ELSE IF m.name = "codex"
    THEN [m EXCEPT !.outcome = "returned", !.runner = CodexRunner(m.config),
                   !.constructed = m.constructed + 1]
    ELSE [m EXCEPT !.outcome = "thrown", !.error = "Unknown agent backend: " \o m.name]

BackendNames == {"claude-code", "codex", "gemini", "claude", "Codex", "unknown", ""}

MadeInit ==
    /\ backend \in {"codex", "claude"}
    /\ procs = [p \in ProcIds |-> NoProc]
    /\ runs = [r \in RunIds |-> NoRun]
    /\ registry = [k \in Keys |-> None]
    /\ current = None
    /\ lastReg = [key |-> NoKey, old |-> None, new |-> None]
    /\ lastOp = NoOp
    /\ dec = NewDec("none", <<>>)
    /\ chat = NoChat
    /\ cmd = NoCmd
    /\ msg = NoMsg
    /\ made \in [name : BackendNames,
                 config : [model : Models, workdir : Workdirs, skipPermissions : SkipOptions],
                 outcome : {"none"}, runner : {NoRunner}, error : {""}, constructed : {0}]

MadeQuiet ==
    UNCHANGED <<backend, procs, runs, registry, current, lastReg, lastOp, dec, chat, cmd, msg>>

CreateAgentRunner ==
    /\ made.outcome = "none"
    /\ made' = createAgentRunner(made)

MadeNext == CreateAgentRunner /\ MadeQuiet

MadeSpec == MadeInit /\ [][MadeNext]_vars

\* -------------------------------------------------------------- claims
RunOf(p) == runs[procs[p].run]
Spawned == {p \in ProcIds : procs[p].state # "unborn"}
\* spawned and not yet exited
InFlight == {p \in ProcIds : procs[p].state = "running"}
ClosesIn(p) == procs[p].state # "closed" /\ procs'[p].state = "closed"

\* C1 (as claimed): for each conversation key at most one process spawned for
\* the key is in flight (spawned and not yet exited).
C1_OneInFlightPerKey ==
    \A k \in Keys : Cardinality({p \in InFlight : procs[p].key = k}) <= 1

\* C1 (amended): for each conversation key at most one process spawned for the
\* key is in flight and has not been sent a termination signal, and that
\* process is the registry's entry of the key; superseded or stopped processes
\* may still be in flight until their exit notification.
C1_OneUnsignalledPerKey ==
    /\ \A k \in Keys :
          Cardinality({p \in InFlight : procs[p].key = k /\ ~procs[p].killed}) <= 1
    /\ \A p \in InFlight : ~procs[p].killed => registry[procs[p].key] = p

C1_Witness ==
    \E p1, p2 \in InFlight :
        /\ p1 # p2 /\ procs[p1].key = procs[p2].key
        /\ procs[p1].superseded /\ procs[p1].killed
        /\ ~procs[p2].killed /\ registry[procs[p2].key] = p2

\* C2: a register(key, p2) that finds p1 registered under key leaves p1 sent a
\* termination signal and the registry holding p2 for key, with isRunning(key)
\* true of p2 (p2 itself not signalled).
C2_RegisterSupersedes ==
    [][(lastReg' # lastReg /\ lastReg'.old # None) =>
          /\ procs'[lastReg'.old].killed
          /\ registry'[lastReg'.key] = lastReg'.new
          /\ ~procs'[lastReg'.new].killed
          /\ isRunning(procs', registry', lastReg'.key)]_vars

C2_Witness ==
    /\ lastReg.old # None
    /\ procs[lastReg.old].state = "running" /\ procs[lastReg.old].killed
    /\ registry[lastReg.key] = lastReg.new
    /\ isRunning(procs, registry, lastReg.key)

Settled(r) == runs[r].status \in {"resolved", "rejected"}
Terminal(r) == runs[r].nComplete + runs[r].nError

\* C4: in every runStream call exactly one of onComplete / onError is invoked,
\* exactly once, and it has been invoked when the returned promise settles.
C4_ExactlyOneTerminalCallback ==
    \A r \in RunIds : runs[r].mode = "stream" =>
        /\ Terminal(r) <= 1
        /\ Settled(r) => Terminal(r) = 1

\* C5: when the timer of a run's process has expired and the process then
\* exits, the exit is a no-op for the run: its outcome and the callbacks
\* invoked for it stay as the timeout left them.
C5_ExitAfterTimeoutIsNoOp ==
    [][\A p \in ProcIds : (procs[p].timedOut /\ ClosesIn(p)) =>
          runs'[procs[p].run] = runs[procs[p].run]]_vars

\* the registry does not report the key of p as running, unless a process
\* registered after p is its entry
NotRunningUnlessNewer(p) ==
    isRunning(procs, registry, procs[p].key) => registry[procs[p].key] > p

\* C6 (as claimed): once the timer of a run's process has expired, the process
\* has been sent a termination signal, the run has failed with a Timeout error,
\* and the registry does not report the run's key as running unless a newer
\* process has been registered.
C6_TimeoutFailsWithTimeout ==
    \A p \in Spawned : procs[p].timedOut =>
        /\ procs[p].killed
        /\ RunOf(p).status = "rejected" /\ RunOf(p).err = "timeout"
        /\ NotRunningUnlessNewer(p)

\* C6 (amended): once the timer of a run's process has expired, the process
\* has been sent a termination signal and the run has failed: with a Timeout
\* error, or with the backend-reported error that had already failed it before
\* the expiry (streaming runs); the registry does not report the run's key as
\* running unless a newer process has been registered.
C6_TimeoutFails ==
    \A p \in Spawned : procs[p].timedOut =>
        /\ procs[p].killed
        /\ RunOf(p).status = "rejected"
        /\ \/ RunOf(p).err = "timeout" /\ procs[p].perr = "timeout"
           \/ RunOf(p).err = "backend" /\ procs[p].perr = "backend"
                 /\ RunOf(p).mode = "stream"
        /\ NotRunningUnlessNewer(p)

C6_Witness ==
    \E p \in Spawned :
        /\ procs[p].timedOut /\ procs[p].state = "running"
        /\ registry[procs[p].key] = p
        /\ RunOf(p).err = "timeout"
        /\ ~isRunning(procs, registry, procs[p].key)

\* C7: a run that was in flight when stop(key) or cancel() signalled its
\* process stays unsettled until something else ends it (the process's exit,
\* the timer or a backend-reported error), and once the process has ended by
\* the signal the run has settled with an error.
C7_StopSettlesAtExit ==
    \A p \in Spawned : procs[p].stopped =>
        /\ procs[p].state = "running" =>
              (RunOf(p).status = "pending" \/ RunOf(p).err \in {"timeout", "backend"})
        /\ (procs[p].state = "closed" /\ procs[p].code = "signal") =>
              RunOf(p).status = "rejected"

\* the backends of the print-style family: the print-style CLI and its adjacent
PrintStyle == {"claude", "gemini"}
ProcsOf(r) == {p \in Spawned : procs[p].run = r}

\* C8: on a print-style (or adjacent) backend, a run that supplied a session id
\* and whose process exit failed it is retried exactly once without the session
\* id, the retry's outcome is the run's; no run spawns more than two processes.
C8_RetriesOnceWithoutSession ==
    /\ \A r \in RunIds : Cardinality(ProcsOf(r)) <= 2
    /\ \A p \in Spawned :
          (backend \in PrintStyle /\ RunOf(p).session /\ procs[p].attempt = 1
              /\ procs[p].perr = "exit") =>
             \/ RunOf(p).retry
             \/ \E q \in ProcsOf(procs[p].run) :
                   /\ procs[q].attempt = 2
                   /\ procs[q].promise = "resolved" => RunOf(p).status # "pending"
                   /\ procs[q].promise = "rejected" =>
                         (RunOf(p).status = "rejected" /\ RunOf(p).err = procs[q].perr)

\* C9: a run failed by SpawnFailure or Timeout is not retried: the failure is
\* the run's outcome and the run spawns no process after the failed one.
C9_NoRetryAfterSpawnOrTimeout ==
    \A p \in Spawned : procs[p].perr \in {"spawn", "timeout"} =>
        /\ RunOf(p).status = "rejected" /\ RunOf(p).err = procs[p].perr
        /\ ~RunOf(p).retry
        /\ \A q \in ProcsOf(procs[p].run) : q <= p

C9_Witness ==
    \E p \in Spawned :
        /\ backend = "gemini" /\ RunOf(p).session /\ procs[p].attempt = 1
        /\ procs[p].perr = "timeout"
        /\ procs[p].state = "closed" /\ procs[p].code = "signal"
        /\ RunOf(p).err = "timeout"

\* C10: when a process has exited with a non-zero status (termination by signal
\* included) its run has not succeeded: it is rejected and onComplete was not
\* invoked, whatever had been decoded; only a first process that a session
\* resume retry follows leaves the outcome to the retry.
C10_NonZeroExitNeverSucceeds ==
    \A p \in Spawned : (procs[p].state = "closed" /\ procs[p].code # "zero") =>
        \/ RunOf(p).status = "rejected" /\ RunOf(p).nComplete = 0
        \/ /\ procs[p].attempt = 1 /\ procs[p].perr = "exit"
           /\ backend = "gemini" /\ RunOf(p).session
           /\ RunOf(p).retry \/ \E q \in ProcsOf(procs[p].run) : procs[q].attempt = 2

C10_Witness ==
    \E p \in Spawned :
        /\ procs[p].state = "closed" /\ procs[p].code = "nonzero"
        /\ procs[p].text /\ ~procs[p].failed
        /\ RunOf(p).mode = "stream"
        /\ RunOf(p).status = "rejected" /\ RunOf(p).err = "exit"

\* C11: on a print-style backend, once the terminal result event of a run's
\* process has signalled an error (decoded from a chunk, from the whole output
\* of a non-streaming run, or from the last line at the exit flush), the run
\* is not resolved and onComplete is not invoked, and when the process has
\* exited the run has failed.
C11_ErrorResultFailsRun ==
    \A p \in Spawned : (backend \in PrintStyle /\ procs[p].resultErr) =>
        /\ RunOf(p).status # "resolved"
        /\ RunOf(p).nComplete = 0
        /\ procs[p].state = "closed" => RunOf(p).status = "rejected"

\* the process most recently registered under key k (processes are registered
\* as they are spawned, in increasing order)
LastRegistered(k) ==
    LET Ps == {p \in Spawned : procs[p].key = k}
    IN IF Ps = {} THEN None ELSE CHOOSE p \in Ps : \A q \in Ps : q <= p

\* C13: isRunning(key) is true exactly when the process most recently
\* registered under key has neither been sent a termination signal nor
\* delivered its exit notification; it is false for a key never registered.
C13_IsRunningIffLatestLive ==
    \A k \in Keys :
        isRunning(procs, registry, k) <=>
            /\ LastRegistered(k) # None
            /\ ~procs[LastRegistered(k)].killed
            /\ procs[LastRegistered(k)].state # "closed"

C13_Witness ==
    \E k1, k2 \in Keys :
        /\ registry[k1] # None /\ procs[registry[k1]].timedOut
        /\ ~isRunning(procs, registry, k1)
        /\ isRunning(procs, registry, k2)
        /\ \E p \in Spawned : procs[p].key = k2 /\ procs[p].state = "closed"

\* C19: when the whole stdout of a non-streaming run whose process exited with
\* status 0 is unparsable, the run succeeds (with the raw output as its text).
C19_UnparsableOutputReturned ==
    \A p \in Spawned :
        (RunOf(p).mode = "run" /\ procs[p].state = "closed"
            /\ procs[p].code = "zero" /\ procs[p].out = "garbage") =>
           RunOf(p).status = "resolved"

\* C20: in a runStream call no onText is invoked after onComplete or onError
\* has been invoked.
C20_NoTextAfterTerminal ==
    \A r \in RunIds : runs[r].mode = "stream" => ~runs[r].lateText

\* a step in which a caller's call of op returns
CallStep(op) == lastOp'.seq # lastOp.seq /\ lastOp'.op = op

\* C12: stop(key) returns true exactly when the registry holds for key a
\* process not yet sent a termination signal; then the process is signalled
\* and the entry removed when stop returns, the process not having exited, and
\* nothing else changes. Otherwise stop returns false and changes nothing. A
\* stop(key) that follows at once returns false.
C12_StopReturnsAndEffects ==
    [][CallStep("stop") =>
          LET k == lastOp'.key
              q == registry[k]
              live == q # None /\ ~procs[q].killed
          IN /\ lastOp'.ret = live
             /\ live => /\ procs'[q].killed /\ procs'[q].state = procs[q].state
                        /\ registry' = [registry EXCEPT ![k] = None]
                        /\ \A p \in ProcIds \ {q} : procs'[p] = procs[p]
             /\ ~live => procs' = procs /\ registry' = registry
             /\ ~stop(procs', registry', k).ret]_vars

C12_Witness ==
    /\ lastOp.op = "stop" /\ lastOp.ret /\ lastOp.n = 1
    /\ registry[lastOp.key] = None
    /\ \E p \in Spawned : /\ procs[p].key = lastOp.key /\ procs[p].stopped
                           /\ procs[p].killed /\ procs[p].state = "running"

\* C14: when stopAll() returns, isRunning(key) is false for every key and
\* every process that was registered and not yet signalled has been sent a
\* termination signal.
C14_StopAllStopsAll ==
    [][CallStep("stopAll") =>
          /\ \A k \in Keys : ~isRunning(procs', registry', k)
          /\ \A p \in ProcIds :
                ((\E k \in Keys : registry[k] = p) /\ ~procs[p].killed) =>
                    procs'[p].killed]_vars

C14_Witness ==
    /\ lastOp.op = "stopAll" /\ lastOp.n = 2
    /\ \A k \in Keys : registry[k] = None
    /\ Cardinality({p \in InFlight : procs[p].killed}) >= 2

CompleteLines(cs) == SubSeq(split(cs), 1, Len(split(cs)) - 1)

\* C16: in streaming mode, however the bytes written so far were cut into
\* chunks, the lines the stdout handler has taken up are exactly the
\* newline-terminated lines of the bytes written so far, each once, in order.
C16_LinesIndependentOfChunking ==
    dec.mode = "stream" =>
        dec.handed = CompleteLines(toString(SubSeq(dec.script, 1, dec.pos)))

\* what a call returns: how its promise settled and with what
Outcome(D) == [promise |-> D.promise, err |-> D.err, result |-> D.result]

\* C17: when a streaming process exits leaving in the buffer a last line that
\* is a JSON object without its newline, runStream settles as it would have
\* settled had the newline arrived before the exit (same text, same session
\* id).
C17_UnterminatedLastLineEmitted ==
    [][(/\ dec.mode = "stream" /\ dec.closed = "none" /\ dec'.closed # "none"
        /\ trim(dec.buffer) # <<>> /\ JSONparse(dec.buffer).type # "bad") =>
          Outcome(dec') =
              Outcome(streamClose(backend, streamText(backend, dec, <<"nl">>),
                                  dec'.closed))]_vars

\* an empty, whitespace-only or unparsable line
Junk(line) == trim(line) = <<>> \/ JSONparse(line).type = "bad"

RECURSIVE WithoutJunk(_)
WithoutJunk(ls) ==
    IF ls = <<>> THEN <<>>
    ELSE (IF Junk(ls[1]) THEN <<>> ELSE <<ls[1]>>) \o WithoutJunk(Tail(ls))

\* the lines joined by newlines
RECURSIVE join(_)
join(ls) ==
    IF Len(ls) = 0 THEN <<>>
    ELSE IF Len(ls) = 1 THEN ls[1]
    ELSE ls[1] \o <<"nl">> \o join(Tail(ls))

\* the text without its newline-terminated junk lines
Dejunk(cs) ==
    join(WithoutJunk(CompleteLines(cs)) \o <<split(cs)[Len(split(cs))]>>)

\* the handler fed the lines ls one by one
RECURSIVE FedLines(_, _, _)
FedLines(b, D, ls) ==
    IF ls = <<>> THEN D
    ELSE FedLines(b, streamText(b, D, ls[1] \o <<"nl">>), Tail(ls))

\* what the caller sees of a call
Seen(D) ==
    [fullText |-> D.fullText, sessionId |-> D.sessionId, calls |-> D.calls,
     promise |-> D.promise, err |-> D.err, result |-> D.result]

\* the same output without its junk lines, decoded by a streaming call up to
\* the point the call D has reached
SameWithoutJunk(D) ==
    LET R == FedLines(backend, NewDec("stream", <<>>), WithoutJunk(D.handed))
    IN IF D.closed = "none" THEN R
       ELSE streamClose(backend, [R EXCEPT !.buffer = D.buffer], D.closed)

StreamUnchangedByJunk ==
    dec.mode = "stream" => Seen(dec) = Seen(SameWithoutJunk(dec))

\* C18: the junk lines of the output change nothing: a streaming call has made
\* the callbacks, accumulated the text and session id and settled as it would
\* have on the output without them, and a non-streaming exec-style run whose
\* output has at least one valid line returns the text it would have returned
\* on the output without them.
C18_JunkLinesChangeNothing ==
    /\ StreamUnchangedByJunk
    /\ (/\ dec.mode = "run" /\ dec.promise = "resolved"
        /\ \E i \in 1..Len(split(dec.stdout)) : ~Junk(split(dec.stdout)[i])) =>
          dec.result.text = extractResult(Dejunk(dec.stdout))

\* the text events decoded by the call D, in stream order: those of the lines
\* taken up by the stdout handler and, once the process has exited, the one of
\* the line left in the buffer. An exec-style or Gemini event with empty text
\* is no text event; an exec-style result object with text is one (the legacy
\* fallback).
IsTextEvent(b, line) ==
    /\ trim(line) # <<>>
    /\ \/ JSONparse(line).type = "text"
       \/ JSONparse(line).type = "result" /\ b = "codex"
    /\ b = "claude" \/ JSONparse(line).text # <<>>

RECURSIVE TextsOf(_, _)
TextsOf(b, ls) ==
    IF ls = <<>> THEN <<>>
    ELSE (IF IsTextEvent(b, ls[1]) THEN <<JSONparse(ls[1]).text>> ELSE <<>>)
         \o TextsOf(b, Tail(ls))

TextEvents(b, D) ==
    TextsOf(b, D.handed \o (IF D.closed # "none" THEN <<D.buffer>> ELSE <<>>))

\* the onText calls owed for the texts ts when the running total was acc:
\* an exec-style text replaces the total, a print-style fragment is appended
RECURSIVE OwedCalls(_, _, _)
OwedCalls(b, acc, ts) ==
    IF ts = <<>> THEN <<>>
    ELSE LET total == IF b = "codex" THEN ts[1] ELSE acc \o ts[1]
         IN <<[cb |-> "onText", delta |-> ts[1], total |-> total]>>
            \o OwedCalls(b, total, Tail(ts))

OnTextCalls(D) == SelectSeq(D.calls, LAMBDA c : c.cb = "onText")

\* C21: runStream has invoked onText once for every text event decoded so far,
\* in stream order, the event of the exit flush included, each time with the
\* fragment and the running total at that point.
C21_OnTextForEveryTextEvent ==
    dec.mode = "stream" =>
        OnTextCalls(dec) = OwedCalls(backend, <<>>, TextEvents(backend, dec))

\* the text events of an exec-style call that has returned: those decoded by
\* runStream, or those of the lines of the whole output of run
CodexTexts(D) ==
    IF D.mode = "stream" THEN TextEvents("codex", D)
    ELSE TextsOf("codex", split(D.stdout))

\* C22: an exec-style run or runStream that succeeded after decoding one or
\* more agent_message events returns the text of the last one, not a
\* concatenation.
C22_LastAgentMessageReplaces ==
    (backend = "codex" /\ dec.promise = "resolved" /\ CodexTexts(dec) # <<>>) =>
        dec.result.text = CodexTexts(dec)[Len(CodexTexts(dec))]

C22_Witness ==
    /\ backend = "codex" /\ dec.promise = "resolved"
    /\ Len(CodexTexts(dec)) = 2
    /\ CodexTexts(dec)[1] # CodexTexts(dec)[2]
    /\ dec.result.text = CodexTexts(dec)[2]
    /\ dec.mode = "stream" /\ Len(OnTextCalls(dec)) = 2

\* the JSON objects decoded by the call D, in stream order
Decoded(D) ==
    SelectSeq(D.handed \o (IF D.closed # "none" THEN <<D.buffer>> ELSE <<>>),
              LAMBDA l : ~Junk(l))

RECURSIVE Concat(_)
Concat(ts) == IF ts = <<>> THEN <<>> ELSE ts[1] \o Concat(Tail(ts))

\* the streamed text A before the last object decoded (no result among them)
StreamedBeforeLast(D) ==
    Concat(TextsOf("claude", SubSeq(Decoded(D), 1, Len(Decoded(D)) - 1)))

\* the last object decoded is the only result, signals no error and has text
EndsWithResult(D) ==
    /\ Decoded(D) # <<>>
    /\ JSONparse(Decoded(D)[Len(Decoded(D))]).type = "result"
    /\ \A i \in 1..(Len(Decoded(D)) - 1) :
          JSONparse(Decoded(D)[i]).type \in {"text", "session"}

\* C23: a print-style runStream that succeeded with a terminal result of text
\* R after streaming the text A returns R when A is empty, and A followed by R
\* when A is not empty and R does not start with A.
C23_ResultMergedWithStreamedText ==
    (backend = "claude" /\ dec.mode = "stream" /\ dec.promise = "resolved"
        /\ EndsWithResult(dec)) =>
       LET R == JSONparse(Decoded(dec)[Len(Decoded(dec))]).text
           A == StreamedBeforeLast(dec)
       IN /\ A = <<>> => dec.result.text = R
          /\ (A # <<>> /\ ~IsPrefix(A, R)) => dec.result.text = A \o R

C23_Witness ==
    /\ backend = "claude" /\ dec.mode = "stream" /\ dec.promise = "resolved"
    /\ EndsWithResult(dec)
    /\ StreamedBeforeLast(dec) = <<"U">>
    /\ dec.result.text = <<"U", "x", "x">>

\* C24: a non-empty session entry of a key is lost (deleted or emptied) only by
\* a new-session command, which is the one step that changes the entry and no
\* processPrompt call; so every run started on the key afterwards resumes.
C24_SessionEntryNeverLost ==
    [][\A k \in Keys :
          (resumeOf(chat.sessions[k]) # Absent /\ resumeOf(chat'.sessions[k]) = Absent)
              => chat'.prompts = chat.prompts]_vars

\* how often token t occurs in argv a, and where it occurs first (0: nowhere)
Count(a, t) == Cardinality({i \in 1..Len(a) : a[i] = t})
IndexOf(a, t) ==
    IF \E i \in 1..Len(a) : a[i] = t
    THEN CHOOSE i \in 1..Len(a) : a[i] = t /\ \A j \in 1..(i - 1) : a[j] # t
    ELSE 0

Bypass == "--dangerously-bypass-approvals-and-sandbox"
FullAuto == "--full-auto"
Flags == {"--json", Bypass, FullAuto, "--skip-git-repo-check", "--model", "--cd"}

\* the caller's prompt behind the injected context
Injected(c) ==
    "<system-context>\n" \o c.systemPrompt \o "\n</system-context>\n\n" \o c.prompt

\* the subcommand-positional tokens of an exec-style argv: from the resume
\* token when there is one, else the prompt alone
FirstPositional(a) ==
    IF IndexOf(SubSeq(a, 1, Len(a) - 1), "resume") # 0
    THEN IndexOf(SubSeq(a, 1, Len(a) - 1), "resume")
    ELSE Len(a)

\* C25: the exec-style argv starts exec, --json, permission-mode flag,
\* --skip-git-repo-check; every flag stands before the first positional token;
\* the last element is the caller's prompt with the injected context before it.
C25_ExecArgvShape ==
    cmd.by = "buildArgs" =>
        LET a == cmd.args
            n == Len(a)
        IN /\ n >= 5
           /\ a[1] = "exec" /\ a[2] = "--json"
           /\ a[3] \in {Bypass, FullAuto}
           /\ a[4] = "--skip-git-repo-check"
           /\ \A i \in 1..(n - 1) : a[i] \in Flags => i < FirstPositional(a)
           /\ \A i \in 1..(n - 1) : i >= FirstPositional(a) => a[i] \notin Flags
           /\ a[n] = Injected(cmd)

C25_Witness ==
    /\ cmd.by = "buildArgs"
    /\ Truthy(cmd.model) /\ Truthy(cmd.workdir) /\ Truthy(cmd.options.sessionId)
    /\ cmd.prompt = "--full-auto"
    /\ Len(cmd.args) = 11

\* C26: the exec-style argv holds exactly one permission-mode flag: the bypass
\* flag and no --full-auto when permission skipping is on for the request,
\* --full-auto and no bypass flag when it is off.
C26_OnePermissionFlag ==
    cmd.by = "buildArgs" =>
        /\ Count(cmd.args, Bypass) + Count(cmd.args, FullAuto) = 1
        /\ skipOf(cmd) => Count(cmd.args, Bypass) = 1 /\ Count(cmd.args, FullAuto) = 0
        /\ ~skipOf(cmd) => Count(cmd.args, FullAuto) = 1 /\ Count(cmd.args, Bypass) = 0

C26_Witness ==
    /\ cmd.by = "buildArgs"
    /\ cmd.options.skipPermissions = "true" /\ ~cmd.skipPermissions
    /\ cmd.prompt = "--full-auto"
    /\ Count(cmd.args, Bypass) = 1

\* C27: with a session id in the request, the exec-style argv holds resume once,
\* the id right after it, both after every --model and --cd flag and its value
\* and before the prompt; with no session id it holds no resume token.
C27_ResumeAfterGlobalFlags ==
    cmd.by = "buildArgs" =>
        LET a == cmd.args
            n == Len(a)
            r == IndexOf(a, "resume")
        IN IF Truthy(cmd.options.sessionId)
           THEN /\ Count(a, "resume") = 1
                /\ r + 1 < n
                /\ a[r + 1] = cmd.options.sessionId
                /\ \A i \in 1..n : a[i] \in {"--model", "--cd"} => i + 1 < r
           ELSE r = 0

C27_Witness ==
    /\ cmd.by = "buildArgs"
    /\ Truthy(cmd.model) /\ Truthy(cmd.workdir) /\ Truthy(cmd.options.sessionId)
    /\ cmd.prompt = "resume"
    /\ IndexOf(cmd.args, "resume") = 9

\* a print-style argv without its format value and without --verbose
Optional(cond, toks) == IF cond THEN toks ELSE <<>>
AfterFormat(a) ==
    IF Len(a) >= 4 /\ a[4] = "--verbose" THEN SubSeq(a, 5, Len(a)) ELSE SubSeq(a, 4, Len(a))

PrintShape(c) ==
    /\ Len(c.args) >= 6
    /\ c.args[1] = "-p" /\ c.args[2] = "--output-format"
    /\ c.by = "run" => c.args[3] = "json" /\ c.args[4] # "--verbose"
    /\ c.by = "runStream" => c.args[3] = "stream-json" /\ c.args[4] = "--verbose"
    /\ AfterFormat(c.args) =
           Optional(skipOf(c), <<"--dangerously-skip-permissions">>)
        \o Optional(Truthy(c.options.sessionId), <<"--resume", c.options.sessionId>>)
        \o Optional(Truthy(c.model), <<"--model", c.model>>)
        \o <<"--append-system-prompt", c.systemPrompt, c.prompt>>

\* C28: every print-style argv is -p, --output-format, the format, the optional
\* skip flag, --resume and id, --model and value, then --append-system-prompt
\* with the system prompt and the unchanged prompt last; building the argv of
\* the same request by the other of run and runStream changes the format value
\* and the presence of --verbose, nothing else.
C28_PrintArgvShape ==
    [][cmd'.by \in {"run", "runStream"} =>
          /\ PrintShape(cmd')
          /\ cmd.by \in {"run", "runStream"} =>
                /\ cmd'.by # cmd.by
                /\ AfterFormat(cmd'.args) = AfterFormat(cmd.args)
                /\ SubSeq(cmd'.args, 1, 2) = SubSeq(cmd.args, 1, 2)]_vars

C28_Witness ==
    /\ cmd.by = "runStream"
    /\ skipOf(cmd) /\ Truthy(cmd.model) /\ Truthy(cmd.options.sessionId)
    /\ Len(cmd.args) = 12

\* C29: on either platform a handled message whose prompt starts with !skip
\* runs with permission skipping on, one that starts with !noskip runs with it
\* off, whatever the default, and the prefix is gone from the prompt.
C29_PrefixSetsSkipPermissions ==
    msg.handled =>
        LET given == IF msg.platform = "discord" THEN trimText(collapse(msg.text)) ELSE msg.text
        IN /\ startsWith(given, "!skip") =>
                  msg.skipPermissions /\ msg.prompt = removePrefix(given, "!skip")
           /\ startsWith(given, "!noskip") =>
                  ~msg.skipPermissions /\ msg.prompt = removePrefix(given, "!noskip")

\* the backend names of type AgentBackend
Supported == {"claude-code", "codex"}

\* C30: createAgentRunner returns, for a supported backend name, a runner that
\* has run and runStream; for any other name it throws an error whose message
\* starts with Unknown agent backend, and no runner was constructed.
C30_FactoryReturnsOrThrows ==
    made.outcome # "none" =>
        IF made.name \in Supported
        THEN /\ made.outcome = "returned"
             /\ made.runner # NoRunner
             /\ {"run", "runStream"} \subseteq made.runner.methods
        ELSE /\ made.outcome = "thrown"
             /\ startsWith(made.error, "Unknown agent backend")
             /\ made.runner = NoRunner
             /\ made.constructed = 0

C30_Witness ==
    /\ made.outcome = "thrown"
    /\ made.name = "gemini"
    /\ made.error = "Unknown agent backend: gemini"

\* what the other of run and runStream returns for the same output, received
\* in one chunk, with exit status 0
OtherMode(D) ==
    IF D.mode = "run"
    THEN streamClose("codex", streamData("codex", NewDec("stream", D.script), D.script),
                     "zero").result
    ELSE runClose(runData(NewDec("run", D.script), D.script), "zero").result

\* C31: an exec-style run and runStream that resolve on the same output return
\* the same result text and the same session id.
C31_RunAndStreamAgree ==
    (backend = "codex" /\ dec.promise = "resolved") => dec.result = OtherMode(dec)

\* C32: the session id an exec-style run returns is the last session id in
\* line order of the whole stdout, for every cut of the stdout into chunks.
C32_SessionIdIndependentOfChunking ==
    (backend = "codex" /\ dec.mode = "run" /\ dec.promise = "resolved") =>
        dec.result.sid = sessionOf("", split(toString(dec.script)))

\* C33: a process that has delivered its exit notification (after running or
\* after failing to spawn) has no armed timer, so its timer neither signals it
\* nor fails its run afterwards.
C33_TimerCancelledAtExit ==
    \A p \in ProcIds : procs[p].state = "closed" => ~procs[p].timer

C33_Witness ==
    \E p, q \in ProcIds :
        /\ procs[p].state = "closed" /\ procs[p].failed /\ ~procs[p].timedOut
        /\ procs[q].state = "closed" /\ ~procs[q].failed /\ ~procs[q].timedOut
        /\ procs[q].promise = "resolved"

\* the onText calls owed for the lines ls of an exec-style stream, acc being
\* the text accumulated before them: a final message replaces the text, a
\* delta is appended to it
RECURSIVE OwedWithDeltas(_, _)
OwedWithDeltas(acc, ls) ==
    IF ls = <<>> THEN <<>>
    ELSE LET j == JSONparse(ls[1])
             t == IF j.type = "delta" THEN acc \o j.text ELSE j.text
         IN IF trim(ls[1]) # <<>> /\ j.type \in {"text", "result", "delta"} /\ j.text # <<>>
            THEN <<[cb |-> "onText", delta |-> j.text, total |-> t]>>
                     \o OwedWithDeltas(t, Tail(ls))
            ELSE OwedWithDeltas(acc, Tail(ls))

\* C34: in an exec-style streaming run every delta-style message event taken
\* up is appended to the accumulated text and reported by an onText call with
\* the fragment and the new running total.
C34_DeltaAppended ==
    (backend = "codex" /\ dec.mode = "stream") =>
        OnTextCalls(dec) = OwedWithDeltas(<<>>, dec.handed)

\* C35: a run whose process was superseded under its key (another run's
\* process was registered there and its own was signalled) spawns no further
\* process, so it never signals or replaces the process that superseded it.
C35_SupersededRunSpawnsNoMore ==
    [][\A q \in ProcIds :
          (procs[q].state = "unborn" /\ procs'[q].state # "unborn") =>
              ~\E p \in ProcIds :
                  /\ procs[p].superseded
                  /\ procs[p].run = procs'[q].run]_vars

\* C36: the run of the first message taken up on a key after a new-session
\* command for it carries no resume session id, whatever runs were in flight
\* at the command and however they ended.
C36_NoResumeAfterNewSession ==
    [][\A c \in PromptIds :
          (/\ chat.prompts[c].state = "idle" /\ chat'.prompts[c].state = "read"
           /\ chat.fresh[chat'.prompts[c].key])
              => resumeOf(chat'.prompts[c].sessionId) = Absent]_vars

\* C39: the session entry of a key changes only by a new-session command for
\* the key or at the success of a run on the key whose backend reported no
\* error; a run that fails leaves it as it was.
C39_FailedRunKeepsSessionEntry ==
    [][\A k \in Keys :
          chat'.sessions[k] # chat.sessions[k] =>
              \/ chat'.sessions[k] = Absent /\ chat'.prompts = chat.prompts
              \/ \E c \in PromptIds :
                    /\ chat.prompts[c].key = k
                    /\ chat.prompts[c].state = "running"
                    /\ chat'.prompts[c].state = "done"
                    /\ ~chat'.prompts[c].resultErr]_vars

\* C37: with several runs on one runner, cancel() returns false only when no
\* process of the runner is in flight; while one that was not yet signalled
\* has not exited, cancel() signals a process and returns true.
C37_CancelFindsAnyProcessInFlight ==
    [][CallStep("cancel") =>
          ((\E p \in ProcIds : procs[p].state = "running" /\ ~procs[p].killed)
              => lastOp'.ret /\ lastOp'.n = 1)]_vars

\* C38: every call of run or runStream settles, given that an armed timer
\* fires: from some time on no call made is pending (the calls are finitely
\* many).
C38_EveryRunSettles ==
    <>[](\A r \in RunIds : runs[r].status # "pending")

C38_Witness ==
    \E p \in ProcIds :
        /\ procs[p].state = "running" /\ procs[p].timedOut /\ procs[p].stopped
        /\ runs[procs[p].run].status = "rejected" /\ runs[procs[p].run].err = "timeout"

\* a step that is register(k, p), stop(k) or the exit notification of a
\* process registered under k
StepOn(k) ==
    \/ \E q \in ProcIds :
          procs[q].state = "unborn" /\ procs'[q].state # "unborn" /\ procs'[q].key = k
    \/ \E p \in ProcIds : ClosesIn(p) /\ procs[p].key = k
    \/ CallStep("stop") /\ lastOp'.key = k

\* C40: register, stop and the exit notification on one key leave the registry
\* entry of every other key and the process it names as they were.
C40_KeysAreIndependent ==
    [][\A k1, k2 \in Keys :
          (k1 # k2 /\ StepOn(k1)) =>
              /\ registry'[k2] = registry[k2]
              /\ registry[k2] # None => procs'[registry[k2]] = procs[registry[k2]]]_vars

C40_Witness ==
    /\ lastOp.op = "stop" /\ lastOp.key = "k1" /\ lastOp.ret
    /\ registry["k1"] = None
    /\ registry["k2"] # None
    /\ procs[registry["k2"]].state = "running" /\ ~procs[registry["k2"]].killed
    /\ \E p \in ProcIds : procs[p].key = "k1" /\ procs[p].state = "closed"

====
